---- MODULE Spec2Model ----
(***************************************************************************)
(* A model of trepan-xpy's `info pc` subcommand                            *)
(* (processor/command/info_subcmd/pc.py): InfoPC.run prints an InfoFrames  *)
(* block, and InfoPC.print_locals_in_all_frames walks the frame chain from *)
(* the current frame outward, printing for every frame its context, a      *)
(* windowed disassembly and two JSON dumps of its locals.                  *)
(*                                                                         *)
(* Python exceptions are modelled as they propagate in the source: the     *)
(* only handler in the file is the `except (TypeError, ValueError)` of     *)
(* safe_serialize; everything else ends the command.                       *)
(***************************************************************************)
EXTENDS Integers, Sequences, FiniteSets, TLC

\* Bounds of the model.
MaxFrames == 2
MaxLimit == 3

\* run(self, args, limit=5)
DefaultLimit == 5

\* The `None` a frame's f_back holds at the end of the chain; frames are
\* indices 1..Len(frames) of the arena `frames`.
None == 0

Max(a, b) == IF a >= b THEN a ELSE b
Min(a, b) == IF a <= b THEN a ELSE b

(***************************************************************************)
(* Values of local variables.  A value is described by what the serializer *)
(* can observe of it: its run-time type name, how json.dumps ends on it    *)
(* ("" for success, else the exception raised), the JSON text it encodes   *)
(* to, and how repr() ends on it.                                          *)
(***************************************************************************)
Value(ty, enc, lit, rep, reprExc) ==
    [ty |-> ty, enc |-> enc, lit |-> lit, rep |-> rep, reprExc |-> reprExc]

\* The str object holding the text s: JSON-encodable, as "s".
StrValue(s) == Value("str", "", "\"" \o s \o "\"", "'" \o s \o "'", "")

IntOne == Value("int", "", "1", "1", "")
\* an open socket: json.dumps raises TypeError
Handle == Value("socket", "TypeError", "", "<socket fd=3>", "")
\* c = []; c.append(c): json.dumps raises ValueError (circular reference)
Cyclic == Value("list", "ValueError", "", "[[...]]", "")
\* a list subclass nested beyond the recursion limit, with a __repr__ of its
\* own: json.dumps raises RecursionError (a RuntimeError)
Deep == Value("DeepList", "RecursionError", "", "<DeepList>", "")
\* an object whose __repr__ raises
Weird == Value("Weird", "TypeError", "", "", "RuntimeError")

Entry(k, v) == [key |-> k, value |-> v]

\* The locals mappings of the inspected frames, as ordered key/value lists.
LocalsEmpty == << >>
LocalsXF == << Entry("x", IntOne), Entry("f", Handle) >>
LocalsCyclic == << Entry("c", Cyclic) >>
LocalsDeep == << Entry("x", IntOne), Entry("d", Deep) >>
LocalsWeird == << Entry("r", Weird) >>

Keys(m) == { m[i].key : i \in 1..Len(m) }

(***************************************************************************)
(* Code objects: co_len is len(co_code); instrs are the instructions the   *)
(* decoder can decode, each with the line of the offset->line table;       *)
(* decode says how decoding the bytes ends: "ok", "partial" (the decoder   *)
(* stops early and returns) or "raises" (it raises on the malformed rest). *)
(***************************************************************************)
Instr(o, l) == [offset |-> o, line |-> l]

CodeExample ==
    [co_name |-> "inner", co_filename |-> "example.py", co_len |-> 8,
     co_firstlineno |-> 8, decode |-> "ok",
     instrs |-> << Instr(0, 10), Instr(2, 10), Instr(4, 11), Instr(6, 12) >>]

CodeTruncated ==
    [co_name |-> "broken", co_filename |-> "example.py", co_len |-> 5,
     co_firstlineno |-> 20, decode |-> "raises",
     instrs |-> << Instr(0, 20), Instr(2, 21) >>]

CodePartial ==
    [co_name |-> "patchy", co_filename |-> "<string>", co_len |-> 5,
     co_firstlineno |-> 30, decode |-> "partial",
     instrs |-> << Instr(0, 30), Instr(2, 30) >>]

Offsets(code) == { code.instrs[i].offset : i \in 1..Len(code.instrs) }

LineAt(code, off) ==
    code.instrs[CHOOSE i \in 1..Len(code.instrs) : code.instrs[i].offset = off].line

\* frame.f_lineno as the virtual machine keeps it: the line of the
\* instruction at f_lasti; the code's first line while the frame has not
\* started (f_lasti < 0); the last line for an offset past the code.
VmLineno(code, lasti) ==
    IF lasti < 0 THEN code.co_firstlineno
    ELSE IF lasti \in Offsets(code) THEN LineAt(code, lasti)
    ELSE code.instrs[Len(code.instrs)].line

\* A frame without its caller reference.
FrameOf(code, lasti, locals) ==
    [f_code |-> code, f_lasti |-> lasti, f_lineno |-> VmLineno(code, lasti),
     f_locals |-> locals]

\* The frames a chain is built from.
FrameKinds ==
    { FrameOf(CodeExample, 4, LocalsXF),
      FrameOf(CodeExample, -1, LocalsEmpty),
      FrameOf(CodeExample, 8, LocalsCyclic),
      FrameOf(CodeExample, 0, LocalsDeep),
      FrameOf(CodeExample, 6, LocalsWeird),
      FrameOf(CodeTruncated, 2, LocalsXF),
      FrameOf(CodePartial, 0, LocalsEmpty) }

\* The chain of the frames ks: frame i's caller is frame i+1, the last
\* frame's caller is None.
Chain(ks) ==
    [i \in 1..Len(ks) |->
        [f_code |-> ks[i].f_code, f_lasti |-> ks[i].f_lasti,
         f_lineno |-> ks[i].f_lineno, f_locals |-> ks[i].f_locals,
         f_back |-> IF i < Len(ks) THEN i + 1 ELSE None]]

Chains ==
    UNION { { Chain(ks) : ks \in [1..n -> FrameKinds] } : n \in 0..MaxFrames }

\* limit: None (unbounded) or a number.
Unbounded == [some |-> FALSE, n |-> 0]
Limit(k) == [some |-> TRUE, n |-> k]
Limits == { Unbounded } \cup { Limit(k) : k \in (0..MaxLimit) \cup {DefaultLimit} }

VARIABLES
    frames,     \* the inspected program's frames
    curframe,   \* self.proc.curframe
    limit,      \* run's limit argument
    pc,         \* where the command is: idle, while, disasm, locals, done, raised
    frame,      \* print_locals_in_all_frames' cursor
    count,      \* print_locals_in_all_frames' counter
    out,        \* the lines written so far by this run
    calls,      \* the disassemble_bytes calls made so far by this run
    exc,        \* the exception that ended the run, if one did
    run_no,     \* 1 for the first run of the command, 2 for the second
    prev        \* what the first run left: its out, calls, pc and exc

vars == << frames, curframe, limit, pc, frame, count, out, calls, exc, run_no, prev >>

NoExc == [name |-> "", site |-> ""]
Raised(name, site) == [name |-> name, site |-> site]

(***************************************************************************)
(* The value serializer, generate_locals_dump.                             *)
(***************************************************************************)

\* json.dumps(value): the exception it raises ("" for none) and its text.
json_dumps(value) == [exc |-> value.enc, text |-> value.lit]

\* repr(value)
repr(value) == [exc |-> value.reprExc, text |-> value.rep]

\* The exceptions safe_serialize's handler catches.
Caught == { "TypeError", "ValueError" }

\* safe_serialize(value): the value itself when json.dumps(value) succeeds,
\* repr(value) when it raises a caught exception; any other exception, and
\* any exception of repr, propagates.
safe_serialize(value) ==
    LET probe == json_dumps(value) IN
    IF probe.exc = "" THEN [exc |-> "", value |-> value]
    ELSE IF probe.exc \in Caught
         THEN LET r == repr(value) IN
              IF r.exc = "" THEN [exc |-> "", value |-> StrValue(r.text)]
              ELSE [exc |-> r.exc, value |-> value]
         ELSE [exc |-> probe.exc, value |-> value]

\* The first exception raised while a list of results was computed in order.
FirstExc(rs) ==
    IF \A i \in 1..Len(rs) : rs[i].exc = "" THEN ""
    ELSE rs[CHOOSE i \in 1..Len(rs) :
                /\ rs[i].exc # ""
                /\ \A j \in 1..(i - 1) : rs[j].exc = ""].exc

\* generate_locals_dump(locals_dict): the comprehension builds safe_locals,
\* a new dict, entry by entry; json.dumps(safe_locals, indent=4) then encodes
\* every entry under its key, in insertion order.  The text is modelled by
\* its members, key and encoded value.
generate_locals_dump(locals_dict) ==
    LET safe == [i \in 1..Len(locals_dict) |-> safe_serialize(locals_dict[i].value)]
        enc == [i \in 1..Len(locals_dict) |-> json_dumps(safe[i].value)]
    IN  IF FirstExc(safe) # "" THEN [exc |-> FirstExc(safe), text |-> << >>]
        ELSE IF FirstExc(enc) # "" THEN [exc |-> FirstExc(enc), text |-> << >>]
        ELSE [exc |-> "",
              text |-> [i \in 1..Len(locals_dict) |->
                           [key |-> locals_dict[i].key, lit |-> enc[i].text]]]

\* A serializer that stores each fallback text back under its key of the
\* mapping it was handed.
LocalsSubstituted(locals_dict) ==
    [i \in 1..Len(locals_dict) |->
        LET r == safe_serialize(locals_dict[i].value) IN
        Entry(locals_dict[i].key, IF r.exc = "" THEN r.value ELSE locals_dict[i].value)]

\* What generate_locals_dump leaves in the mapping it was handed: the
\* substitutions go to safe_locals, locals_dict is only read.
LocalsAfterDump(locals_dict) == locals_dict

\* { key: type(value).__name__ for key, value in frame.f_locals.items() }
locals_types(locals_dict) ==
    [i \in 1..Len(locals_dict) |->
        Entry(locals_dict[i].key, StrValue(locals_dict[i].value.ty))]

(***************************************************************************)
(* The windowed disassembly.                                               *)
(***************************************************************************)

\* The offset handed on without the clamp.
ClampOffsetNone(offset) == offset

\* offset = max(offset, 0)
ClampOffset(offset) == Max(offset, 0)

\* A window that starts after the current line.
StartLineAfter(line_no) == line_no + 1

\* start_line = line_no - 1
StartLine(line_no) == line_no - 1

\* end_line = line_no + 1
EndLine(line_no) == line_no + 1

\* disassemble_bytes: the records of the decoded instructions whose line lies
\* in [start_line, end_line], in offset order, the one at lasti flagged
\* current.
disassemble_bytes(code, lasti, start_line, end_line) ==
    LET InWindow(ins) == start_line <= ins.line /\ ins.line <= end_line
        sel == SelectSeq(code.instrs, InWindow)
    IN  [i \in 1..Len(sel) |->
            [offset |-> sel[i].offset, line |-> sel[i].line,
             current |-> (sel[i].offset = lasti)]]

\* linecache.getline(filename, line_no, frame.f_globals): the text of the
\* line, or the empty string when the file has no such line.
getline(filename, line_no) ==
    IF filename = "<string>" THEN "" ELSE "source text\n"

\* Mstack.frame2file(self.proc.core, frame, canonic=False)
frame2file(f) == f.f_code.co_filename

(***************************************************************************)
(* The output: one element per print or self.msg call.  part says what the *)
(* call writes: "open" and "close" a tag alone, "pair" an opening tag, the  *)
(* content and the closing tag at once, "value" a content line, "blank" an  *)
(* empty line, "body" the disassembler's lines.                            *)
(***************************************************************************)
Line(ch, tag, part) ==
    [ch |-> ch, tag |-> tag, part |-> part, n |-> 0, s |-> "",
     recs |-> << >>, dump |-> << >>]

LineN(ch, tag, part, n) == [Line(ch, tag, part) EXCEPT !.n = n]
LineS(ch, tag, part, s) == [Line(ch, tag, part) EXCEPT !.s = s]

\* while frame is not None and (limit is None or count < limit)
LoopCond == frame # None /\ (~limit.some \/ count < limit.n)

\* A counter kept from the run before.
StaleCount == count

\* count = 0
InitialCount == 0

\* Lines 70-91: the frame's context.
Header(f, cnt) ==
    LET filename == frame2file(f)
        line_no == f.f_lineno
    IN  << Line("print", "FrameEntry", "open"),
           LineN("print", "FrameIndex", "pair", cnt),
           LineS("print", "Filename", "pair", filename),
           LineS("print", "Function", "pair", f.f_code.co_name),
           Line("msg", "LineNumber", "open"),
           LineN("msg", "LineNumber", "value", line_no),
           Line("msg", "LineNumber", "close"),
           Line("msg", "SourceLine", "open"),
           LineS("msg", "SourceLine", "value", getline(filename, line_no)),
           Line("msg", "SourceLine", "close"),
           Line("msg", "PcOffset", "open"),
           LineN("msg", "PcOffset", "value", f.f_lasti),
           Line("msg", "PcOffset", "close"),
           Line("msg", "", "blank") >>

Init ==
    /\ frames \in Chains
    /\ curframe = IF Len(frames) > 0 THEN 1 ELSE None
    /\ limit \in Limits
    /\ pc = "idle"
    /\ frame = None
    /\ count = 0
    /\ out = << >>
    /\ calls = << >>
    /\ exc = NoExc
    /\ run_no = 1
    /\ prev = [out |-> << >>, calls |-> << >>, pc |-> "idle", exc |-> NoExc]

\* run, up to the loop: print('[[[InfoFrames]]]'), then the call of
\* print_locals_in_all_frames(self.proc.curframe, limit) with its
\* count = 0 and frame = curframe.
RunBegin ==
    /\ pc = "idle"
    /\ out' = << Line("print", "InfoFrames", "open") >>
    /\ calls' = << >>
    /\ exc' = NoExc
    /\ count' = InitialCount
    /\ frame' = curframe
    /\ pc' = "while"
    /\ UNCHANGED << frames, curframe, limit, run_no, prev >>

\* Lines 69-91: the loop test holds; the frame's context is written.
FrameHeader ==
    /\ pc = "while"
    /\ LoopCond
    /\ out' = out \o Header(frames[frame], count)
    /\ pc' = "disasm"
    /\ UNCHANGED << frames, curframe, limit, frame, count, calls, exc, run_no, prev >>

\* Lines 93-116: the offset is clamped, the window is built around line_no and
\* disassemble_bytes is called between the PythonBytecodes tags.  The
\* disassembler writes its lines as it decodes; an exception it raises on
\* malformed bytes is not handled here, nor in run.
Disassemble ==
    /\ pc = "disasm"
    /\ LET f == frames[frame]
           line_no == f.f_lineno
           offset == ClampOffset(f.f_lasti)
           recs == disassemble_bytes(f.f_code, offset, StartLine(line_no), EndLine(line_no))
           body == [Line("msg", "PythonBytecodes", "body") EXCEPT !.recs = recs]
       IN  /\ calls' = Append(calls,
                  [frame |-> frame, lasti |-> offset, cur_line |-> line_no,
                   start_line |-> StartLine(line_no), end_line |-> EndLine(line_no),
                   recs |-> recs])
           /\ IF f.f_code.decode = "raises"
              THEN /\ out' = out \o << Line("msg", "PythonBytecodes", "open"), body >>
                   /\ exc' = Raised("IndexError", "disassemble_bytes")
                   /\ pc' = "raised"
              ELSE /\ out' = out \o << Line("msg", "PythonBytecodes", "open"), body,
                                       Line("msg", "PythonBytecodes", "close") >>
                   /\ exc' = exc
                   /\ pc' = "locals"
    /\ UNCHANGED << frames, curframe, limit, frame, count, run_no, prev >>

\* Lines 118-126: the locals are dumped (line 118, whose result is not used,
\* then once more inside the print of line 120), their types are dumped, the
\* frame entry is closed and the walk moves to the caller.
DumpLocals ==
    /\ pc = "locals"
    /\ LET f == frames[frame]
           locals_values == generate_locals_dump(f.f_locals)
           types == generate_locals_dump(locals_types(f.f_locals))
       IN  /\ frames' = [frames EXCEPT ![frame].f_locals = LocalsAfterDump(@)]
           /\ IF locals_values.exc # ""
              THEN /\ exc' = Raised(locals_values.exc, "generate_locals_dump")
                   /\ pc' = "raised"
                   /\ UNCHANGED << out, frame, count >>
              ELSE IF types.exc # ""
              THEN /\ exc' = Raised(types.exc, "generate_locals_dump")
                   /\ out' = Append(out,
                          [Line("print", "Locals", "pair") EXCEPT !.dump = locals_values.text])
                   /\ pc' = "raised"
                   /\ UNCHANGED << frame, count >>
              ELSE /\ out' = out \o
                          << [Line("print", "Locals", "pair") EXCEPT !.dump = locals_values.text],
                             [Line("print", "LocalsTypes", "pair") EXCEPT !.dump = types.text],
                             Line("print", "FrameEntry", "close") >>
                   /\ frame' = f.f_back
                   /\ count' = count + 1
                   /\ exc' = exc
                   /\ pc' = "while"
    /\ UNCHANGED << curframe, limit, calls, run_no, prev >>

\* Line 69 fails, print_locals_in_all_frames returns and run prints the
\* closing tag (line 131).
RunEnd ==
    /\ pc = "while"
    /\ ~LoopCond
    /\ out' = Append(out, Line("print", "InfoFrames", "close"))
    /\ pc' = "done"
    /\ UNCHANGED << frames, curframe, limit, frame, count, calls, exc, run_no, prev >>

\* The command is given a second time on the same stopped program.
RunAgain ==
    /\ pc \in { "done", "raised" }
    /\ run_no = 1
    /\ prev' = [out |-> out, calls |-> calls, pc |-> pc, exc |-> exc]
    /\ run_no' = 2
    /\ pc' = "idle"
    /\ UNCHANGED << frames, curframe, limit, frame, count, out, calls, exc >>

Next ==
    \/ RunBegin
    \/ FrameHeader
    \/ Disassemble
    \/ DumpLocals
    \/ RunEnd
    \/ RunAgain

Spec == Init /\ [][Next]_vars

(***************************************************************************)
(* Reading the output.                                                     *)
(***************************************************************************)
RunOver == pc \in { "done", "raised" }

Ev(tag, kind) == << tag, kind >>

\* The tag events of an output, in order.
RECURSIVE Events(_)
Events(o) ==
    IF o = << >> THEN << >>
    ELSE LET e == Head(o)
             ev == IF e.part = "open" THEN << Ev(e.tag, "open") >>
                   ELSE IF e.part = "close" THEN << Ev(e.tag, "close") >>
                   ELSE IF e.part = "pair" THEN << Ev(e.tag, "open"), Ev(e.tag, "close") >>
                   ELSE << >>
         IN  ev \o Events(Tail(o))

Sections ==
    << "FrameIndex", "Filename", "Function", "LineNumber", "SourceLine",
       "PcOffset", "PythonBytecodes", "Locals", "LocalsTypes" >>

RECURSIVE SectionEvents(_)
SectionEvents(ss) ==
    IF ss = << >> THEN << >>
    ELSE << Ev(Head(ss), "open"), Ev(Head(ss), "close") >> \o SectionEvents(Tail(ss))

FrameEvents ==
    << Ev("FrameEntry", "open") >> \o SectionEvents(Sections) \o << Ev("FrameEntry", "close") >>

RECURSIVE Repeat(_, _)
Repeat(sq, k) == IF k = 0 THEN << >> ELSE sq \o Repeat(sq, k - 1)

\* The events of a well-formed report of k frames.
WellFormed(k) ==
    << Ev("InfoFrames", "open") >> \o Repeat(FrameEvents, k) \o << Ev("InfoFrames", "close") >>

Lines(o, tag, part) ==
    LET Is(e) == e.tag = tag /\ e.part = part IN SelectSeq(o, Is)

\* The FrameIndex values written, in order.
FrameIndexes(o) ==
    LET ls == Lines(o, "FrameIndex", "pair") IN [i \in 1..Len(ls) |-> ls[i].n]

Opened(o) == Len(Lines(o, "FrameEntry", "open"))
Closed(o) == Len(Lines(o, "FrameEntry", "close"))

\* The frames whose locals the walk has handed to the serializer so far.
Attempted ==
    count + (IF pc = "raised" /\ exc.site = "generate_locals_dump" THEN 1 ELSE 0)

IsPrefix(a, b) == Len(a) <= Len(b) /\ \A i \in 1..Len(a) : a[i] = b[i]

\* C1: for a chain of N frames and a numeric limit L, a run emits exactly
\* min(N, L) FrameEntry blocks between the InfoFrames tags, their FrameIndex
\* values being 0, 1, ..., min(N, L) - 1 in that order; with L = 0 it emits
\* the two InfoFrames tags alone, without an error.
C1_ExactlyMinFrames ==
    (RunOver /\ limit.some) =>
        LET m == Min(Len(frames), limit.n) IN
        /\ Opened(out) = m
        /\ Closed(out) = m
        /\ FrameIndexes(out) = [i \in 1..m |-> i - 1]
        /\ out[1] = Line("print", "InfoFrames", "open")
        /\ out[Len(out)] = Line("print", "InfoFrames", "close")
        /\ limit.n = 0 => (pc = "done" /\ Len(out) = 2)

\* C2: the serializer never fails: no run ends with an exception raised in
\* generate_locals_dump, and every frame whose locals were handed to it has a
\* Locals text whose key set is that of the frame's locals.
C2_SerializerNeverFails ==
    /\ exc.site # "generate_locals_dump"
    /\ \A k \in 1..Attempted :
          /\ Len(Lines(out, "Locals", "pair")) >= k
          /\ Keys(Lines(out, "Locals", "pair")[k].dump) = Keys(frames[k].f_locals)

\* C3: a failure of the disassembly on one frame does not abort the walk: no
\* run ends with an exception raised in disassemble_bytes, and when the run is
\* over a frame whose bytecode is malformed has its Locals and LocalsTypes
\* sections and its closing FrameEntry tag, and the closing InfoFrames tag is
\* written.
C3_DisassemblyFailureContinues ==
    /\ exc.site # "disassemble_bytes"
    /\ RunOver =>
          \A k \in 1..Len(calls) :
              frames[calls[k].frame].f_code.decode # "ok" =>
                  /\ Len(Lines(out, "Locals", "pair")) >= k
                  /\ Len(Lines(out, "LocalsTypes", "pair")) >= k
                  /\ Closed(out) >= k
                  /\ out[Len(out)] = Line("print", "InfoFrames", "close")

\* C4: the output of a run is properly nested: InfoFrames opens first and
\* closes last, and every FrameEntry inside it holds the nine sections once
\* each, in order, each closed before the next opens.
C4_TagsNested ==
    RunOver => \E k \in 0..Len(frames) : Events(out) = WellFormed(k)

\* Whether off lies in the byte range of code's co_code.
InRange(code, off) == 0 <= off /\ off < code.co_len

\* C5 as stated: an offset outside the code's byte range, negative or at or
\* past len(co_code), is handed to the disassembler as 0.
C5_OutOfRangeClampedToZero ==
    \A k \in 1..Len(calls) :
        LET f == frames[calls[k].frame] IN
        ~InRange(f.f_code, f.f_lasti) => calls[k].lasti = 0

\* C5 as amended: every frame whose context was written is disassembled (none
\* is rejected); a negative offset is handed to the disassembler as 0 and every
\* other offset, also one at or past len(co_code), unchanged.
C5_NegativeClampedToZero ==
    /\ pc \in { "locals", "while", "done" } =>
          Len(calls) = Len(Lines(out, "PcOffset", "open"))
    /\ \A k \in 1..Len(calls) :
          LET f == frames[calls[k].frame] IN
          calls[k].lasti = IF f.f_lasti < 0 THEN 0 ELSE f.f_lasti

\* C5's case: one walk disassembled a frame with a negative offset, handed
\* over as 0, and a frame with an offset past the code, handed over as is.
C5_Witness ==
    /\ \E k \in 1..Len(calls) :
          frames[calls[k].frame].f_lasti < 0 /\ calls[k].lasti = 0
    /\ \E k \in 1..Len(calls) :
          LET f == frames[calls[k].frame] IN
          f.f_lasti >= f.f_code.co_len /\ calls[k].lasti = f.f_lasti

\* The JSON text of the str s.
JsonString(s) == "\"" \o s \o "\""

\* C6: for every frame whose locals were handed to the serializer and whose
\* values all have a textual form, the Locals view holds under each key the
\* value's own encoding when json.dumps accepts the value and its repr
\* otherwise, and the LocalsTypes view holds under the same keys the names of
\* the values' types.
C6_LocalsViews ==
    \A k \in 1..Attempted :
        LET m == frames[k].f_locals
            vs == Lines(out, "Locals", "pair")
            ts == Lines(out, "LocalsTypes", "pair")
        IN  (\A i \in 1..Len(m) : m[i].value.reprExc = "") =>
                /\ Len(vs) >= k
                /\ Len(vs[k].dump) = Len(m)
                /\ \A i \in 1..Len(m) :
                      /\ vs[k].dump[i].key = m[i].key
                      /\ vs[k].dump[i].lit =
                            IF m[i].value.enc = "" THEN m[i].value.lit
                            ELSE JsonString(m[i].value.rep)
                /\ pc # "raised" =>
                      /\ Len(ts) >= k
                      /\ Len(ts[k].dump) = Len(m)
                      /\ \A i \in 1..Len(m) :
                            /\ ts[k].dump[i].key = m[i].key
                            /\ ts[k].dump[i].lit = JsonString(m[i].value.ty)

\* C7: the walk stops in one of two ways only, at the sentinel or with limit
\* frames produced; without a limit it stops at the sentinel after exactly N
\* frames; with a limit it never opens more than limit frames.
C7_StopsAtSentinelOrLimit ==
    /\ limit.some => Opened(out) <= limit.n
    /\ RunOver =>
          /\ frame = None \/ (limit.some /\ count = limit.n)
          /\ ~limit.some => (frame = None /\ count = Len(frames))

\* The record of the current instruction is among those emitted by call c, is
\* the only one flagged current and carries the current line.
CurrentEmitted(c) ==
    \E i \in 1..Len(c.recs) :
        /\ c.recs[i].offset = c.lasti
        /\ c.recs[i].line = c.cur_line
        /\ c.recs[i].current
        /\ \A j \in 1..Len(c.recs) : c.recs[j].current => j = i

WindowAround(c) ==
    c.start_line = c.cur_line - 1 /\ c.end_line = c.cur_line + 1

\* C8 as stated: the window requested is [line_no - 1, line_no + 1], and
\* whenever the clamped offset is an instruction offset of the code, the
\* instruction there is emitted, alone flagged current, on the current line.
C8_ClampedCurrentEmitted ==
    \A k \in 1..Len(calls) :
        /\ WindowAround(calls[k])
        /\ calls[k].lasti \in Offsets(frames[calls[k].frame].f_code)
              => CurrentEmitted(calls[k])

\* C8 as amended: the window requested is [line_no - 1, line_no + 1]; at most
\* one record is flagged current; and whenever the frame's own offset, before
\* clamping, is an instruction offset of the code, the instruction there is
\* emitted, alone flagged current, on the current line.
C8_UnclampedCurrentEmitted ==
    \A k \in 1..Len(calls) :
        LET c == calls[k] IN
        /\ WindowAround(c)
        /\ \A i, j \in 1..Len(c.recs) :
              (c.recs[i].current /\ c.recs[j].current) => i = j
        /\ frames[c.frame].f_lasti \in Offsets(frames[c.frame].f_code)
              => CurrentEmitted(c)

\* C8's case, the example of the claim: instructions at 0, 2, 4, 6 on lines
\* 10, 10, 11, 12 and current offset 4 give window [10, 12], four records and
\* the one at offset 4 flagged current on line 11.
C8_Witness ==
    \E k \in 1..Len(calls) :
        LET c == calls[k] IN
        /\ c.lasti = 4 /\ c.start_line = 10 /\ c.end_line = 12
        /\ Len(c.recs) = 4
        /\ c.recs[3] = [offset |-> 4, line |-> 11, current |-> TRUE]

\* C9: a second run on the same chain with the same limit writes what the
\* first wrote: while it runs its output is a prefix of the first run's, and
\* when it is over its output, its disassembly requests and its end are those
\* of the first run.
C9_SecondRunIdentical ==
    (run_no = 2 /\ pc # "idle") =>
        /\ IsPrefix(out, prev.out)
        /\ IsPrefix(calls, prev.calls)
        /\ RunOver => (out = prev.out /\ calls = prev.calls /\ pc = prev.pc /\ exc = prev.exc)

\* C9's case: the second run is over and reported two frames.
C9_Witness ==
    run_no = 2 /\ pc = "done" /\ count = 2 /\ Closed(out) = 2

\* C10: no step of the command changes the frame chain, a frame's code, offset
\* or line, or a frame's locals, nor the current frame or the limit.
C10_WalkReadOnly ==
    [][frames' = frames /\ curframe' = curframe /\ limit' = limit]_vars

\* C10's case: the serializer substituted the repr of a frame's value in its
\* dump, and the frame's locals still hold the value.
C10_Witness ==
    /\ Len(frames) > 0
    /\ frames[1].f_locals = LocalsXF
    /\ \E i \in 1..Len(out) :
          /\ out[i].tag = "Locals"
          /\ out[i].part = "pair"
          /\ out[i].dump = << [key |-> "x", lit |-> "1"],
                              [key |-> "f", lit |-> JsonString(Handle.rep)] >>

====
